---- MODULE Spec2Model ----
(***************************************************************************)
(* Permutation-test engine of mgc: IndependenceTest.test / KSampleTest.test *)
(* (the resampling protocol), HHG and Hsic (the statistics), and the worker *)
(* pool that MapWrapper(workers) hands the trials to.                       *)
(*                                                                          *)
(* One behaviour follows one constructed test object through a bounded      *)
(* number of calls made by its caller: np.random.seed(s), test(...) and     *)
(* _statistic(...).  A run of test() is split at the points where other     *)
(* processes can interleave: the workers of the pool taking a chunk of      *)
(* trials and delivering its results.                                       *)
(*                                                                          *)
(* Statistic values are exact rationals <<num, den>>, den > 0.  Samples are *)
(* 2-D arrays given as sequences of rows; every row of a sample matrix in   *)
(* the model has one column, every row of a precomputed pairwise matrix n.  *)
(***************************************************************************)
EXTENDS Integers, Sequences, FiniteSets, TLC

VARIABLES
    suite,      \* which inputs the caller tries: "main" or "scenario"
    kind,       \* class of the constructed object: "HHG", "Hsic", "KSample"
    metric,     \* its compute_distance / compute_kernel: "callable", "None", "notcallable"
    recv,       \* the object's attributes stat, pvalue, null_dist
    inner,      \* attributes of the helper object: the Dcorr local to Hsic.test,
                \* the indep_test member of a KSampleTest
    pc,         \* where the caller is: "idle", "trials" (inside test(), at the
                \* mapwrapper call), "done" (test() returned), "raised"
                \* (test() raised), "stat" (_statistic returned)
    call,       \* arguments of the current or last call: case, reps, workers
    stat,       \* the local variable stat / obs_stat of test()
    ret,        \* what the last call returned: <<stat, pvalue>>, <<stat>> or <<>>
    rng,        \* the caller process's global np.random state
    wrng,       \* the global np.random state of each process of the pool
    chunks,     \* task queue of the pool: chunks of trial indices not yet taken
    busy,       \* the chunk each pool process is working on (<<>> when idle)
    results,    \* trial index -> its statistic, NoVal while outstanding
    order,      \* trial indices in the order their results were delivered
    drew,       \* history: trial index -> <<process, stream position>> of its first draw
    evals,      \* history: statistic evaluations of the current call,
                \* [obs |-> on the call's own data, perm |-> on permuted data]
    seeded,     \* history: the seed the caller set right before this call, -1 if none
    before,     \* history: recv as it was when the current call started
    hist,       \* history: summaries of the last two runs of test() that
                \* returned, [old |-> .., cur |-> ..]
    runs        \* number of calls made so far

vars == <<suite, kind, metric, recv, inner, pc, call, stat, ret, rng, wrng,
          chunks, busy, results, order, drew, evals, seeded, before, hist, runs>>

-----------------------------------------------------------------------------
(* Bounds of the model *)

MaxReps == 3        \* largest reps argument tried
MaxRuns == 2        \* calls made on one object
NumSeeds == 1       \* seeds the caller may fix: 0 .. NumSeeds-1
CpuCount == 2       \* os.cpu_count(): size of the pool for workers = -1

(* reps default of test(self, x, y, reps=1000, workers=-1) *)
DefaultReps == 1000

NoVal == <<>>       \* None
Unset == << <<>> >>  \* an attribute that was never assigned (AttributeError on read)

-----------------------------------------------------------------------------
(* Exact arithmetic on statistic values *)

Abs(a) == IF a < 0 THEN -a ELSE a

RECURSIVE GCD(_, _)
GCD(a, b) == IF b = 0 THEN a ELSE GCD(b, a % b)

Rat(num, den) ==
    LET g == GCD(Abs(num), den) IN <<num \div g, den \div g>>

RatAdd(p, q) == Rat(p[1] * q[2] + q[1] * p[2], p[2] * q[2])

(* p >= q *)
RatGE(p, q) ==
    IF p[2] = q[2] THEN p[1] >= q[1] ELSE p[1] * q[2] >= q[1] * p[2]

(* f[1] + ... + f[n] *)
RECURSIVE SumInt(_, _)
SumInt(f, n) == IF n = 0 THEN 0 ELSE f[n] + SumInt(f, n - 1)

RECURSIVE SumRat(_, _)
SumRat(f, n) == IF n = 0 THEN <<0, 1>> ELSE RatAdd(SumRat(f, n - 1), f[n])

-----------------------------------------------------------------------------
(* Pairwise matrices *)

(* euclidean(x) of a one-column sample matrix: |x_i - x_j| *)
Euclidean(x) ==
    [i \in 1..Len(x) |-> [j \in 1..Len(x) |-> Abs(x[i][1] - x[j][1])]]

-----------------------------------------------------------------------------
(* HHG statistic *)

(* faulty HhgPair: strict comparisons of the distances *)
HhgPairStrict(distx, disty, i, j) ==
    LET n == Len(distx)
        a == [k \in 1..n |-> IF distx[i][k] < distx[i][j] THEN 1 ELSE 0]
        b == [k \in 1..n |-> IF disty[i][k] < disty[i][j] THEN 1 ELSE 0]
        t11 == SumInt([k \in 1..n |-> a[k] * b[k]], n) - 2
        t12 == SumInt([k \in 1..n |-> a[k] * (1 - b[k])], n)
        t21 == SumInt([k \in 1..n |-> (1 - a[k]) * b[k]], n)
        t22 == SumInt([k \in 1..n |-> (1 - a[k]) * (1 - b[k])], n)
        denom == (t11 + t12) * (t21 + t22) * (t11 + t21) * (t12 + t22)
    IN  IF denom > 0
        THEN Rat((n - 2) * (t12 * t21 - t11 * t22) * (t12 * t21 - t11 * t22), denom)
        ELSE <<0, 1>>

(* faulty HhgCells: the adjustment of -2 is made to t22 *)
HhgCellsAdjustT22(distx, disty, i, j) ==
    LET n == Len(distx)
        a == [k \in 1..n |-> IF distx[i][k] <= distx[i][j] THEN 1 ELSE 0]
        b == [k \in 1..n |-> IF disty[i][k] <= disty[i][j] THEN 1 ELSE 0]
    IN  [t11 |-> SumInt([k \in 1..n |-> a[k] * b[k]], n),
         t12 |-> SumInt([k \in 1..n |-> a[k] * (1 - b[k])], n),
         t21 |-> SumInt([k \in 1..n |-> (1 - a[k]) * b[k]], n),
         t22 |-> SumInt([k \in 1..n |-> (1 - a[k]) * (1 - b[k])], n) - 2]

(* the cell counts t11, t12, t21, t22 of _hhg for one ordered pair i # j *)
HhgCells(distx, disty, i, j) ==
    LET n == Len(distx)
        a == [k \in 1..n |-> IF distx[i][k] <= distx[i][j] THEN 1 ELSE 0]
        b == [k \in 1..n |-> IF disty[i][k] <= disty[i][j] THEN 1 ELSE 0]
    IN  [t11 |-> SumInt([k \in 1..n |-> a[k] * b[k]], n) - 2,
         t12 |-> SumInt([k \in 1..n |-> a[k] * (1 - b[k])], n),
         t21 |-> SumInt([k \in 1..n |-> (1 - a[k]) * b[k]], n),
         t22 |-> SumInt([k \in 1..n |-> (1 - a[k]) * (1 - b[k])], n)]

(* denom of _hhg for the cell counts c *)
HhgDenom(c) == (c.t11 + c.t12) * (c.t21 + c.t22) * (c.t11 + c.t21) * (c.t12 + c.t22)

(* S[i, j] of _hhg for one ordered pair i # j *)
HhgPair(distx, disty, i, j) ==
    LET n == Len(distx)
        c == HhgCells(distx, disty, i, j)
        denom == HhgDenom(c)
    IN  IF denom > 0
        THEN Rat((n - 2) * (c.t12 * c.t21 - c.t11 * c.t22)
                         * (c.t12 * c.t21 - c.t11 * c.t22), denom)
        ELSE <<0, 1>>

(* _hhg(distx, disty): S is zero on the diagonal, the statistic is the sum  *)
(* of all its entries, taken row by row                                     *)
Hhg(distx, disty) ==
    LET n == Len(distx)
        rowsum == [i \in 1..n |->
                     SumRat([j \in 1..n |->
                               IF i # j THEN HhgPair(distx, disty, i, j)
                               ELSE <<0, 1>>], n)]
    IN  SumRat(rowsum, n)

(* distx, disty of HHG._statistic(x, y): what it hands to _hhg *)
KernelInputs(x, y, m) ==
    IF m = "None" THEN [distx |-> x, disty |-> y]
    ELSE [distx |-> Euclidean(x), disty |-> Euclidean(y)]

(* HHG._statistic(x, y): the value it returns (it also assigns self.stat) *)
HHGStatistic(x, y, m) ==
    LET d == KernelInputs(x, y, m) IN Hhg(d.distx, d.disty)

-----------------------------------------------------------------------------
(* Trace statistic of the Dcorr family, on which Hsic rests *)

(* (n-1)(n-2) times the U-centred matrix:                                   *)
(* C_ij = D_ij - rowsum_i/(n-2) - colsum_j/(n-2) + total/((n-1)(n-2)), and  *)
(* C_ii = 0                                                                 *)
UCenter(D) ==
    LET n == Len(D)
        row == [i \in 1..n |-> SumInt(D[i], n)]
        col == [j \in 1..n |-> SumInt([i \in 1..n |-> D[i][j]], n)]
        total == SumInt(row, n)
    IN  [i \in 1..n |-> [j \in 1..n |->
            IF i = j THEN 0
            ELSE (n - 1) * (n - 2) * D[i][j] - (n - 1) * row[i]
                 - (n - 1) * col[j] + total]]

(* U(x, y) = trace(Cx Cy) / (n (n-3)); all values for one n share one       *)
(* denominator, which is kept unreduced                                     *)
TraceStat(Dx, Dy) ==
    LET n == Len(Dx)
        Cx == UCenter(Dx)
        Cy == UCenter(Dy)
        diag == [i \in 1..n |-> SumInt([j \in 1..n |-> Cx[i][j] * Cy[j][i]], n)]
    IN  <<SumInt(diag, n),
          (n - 1) * (n - 2) * (n - 1) * (n - 2) * n * (n - 3)>>

(* Dcorr._statistic(x, y) with compute_distance = the callable kernel; the  *)
(* callable of the model is |x_i - x_j|                                     *)
DcorrStatistic(x, y, m) ==
    IF m = "None" THEN TraceStat(x, y) ELSE TraceStat(Euclidean(x), Euclidean(y))

-----------------------------------------------------------------------------
(* The process-wide random state of np.random and np.random.permutation *)

(* a seeded generator: s is the generator's state, pos the number of draws  *)
(* made since it was seeded.  Two equal records are the same position of    *)
(* the same stream.                                                         *)
SeedState(seed) == [s |-> (12345 + 1000 * seed) % 65537, pos |-> 0]

(* one step of the generator *)
RngNext(g) == [s |-> (75 * g.s + 74) % 65537, pos |-> g.pos + 1]

(* the shuffle of np.random.permutation: for i = n-1 down to 1, swap        *)
(* arr[i] with arr[j], j drawn from 0..i (here 1-based: i = n down to 2)    *)
RECURSIVE Shuffle(_, _, _)
Shuffle(arr, i, g) ==
    IF i < 2 THEN [arr |-> arr, rng |-> g]
    ELSE LET g2 == RngNext(g)
             j == (g2.s % i) + 1
             swapped == [arr EXCEPT ![i] = arr[j], ![j] = arr[i]]
         IN  Shuffle(swapped, i - 1, g2)

(* np.random.permutation(x): a copy of x with its rows (first axis only)    *)
(* shuffled, and the generator after the draws                              *)
Permutation(x, g) == Shuffle(x, Len(x), g)

-----------------------------------------------------------------------------
(* k-sample transform *)

(* k_sample_transform(<<x, y>>): u stacks the rows of the groups, v holds   *)
(* the group code of each row                                               *)
KSampleTransform(x, y) ==
    [u |-> x \o y,
     v |-> [i \in 1..(Len(x) + Len(y)) |-> IF i <= Len(x) THEN <<0>> ELSE <<1>>]]

-----------------------------------------------------------------------------
(* Inputs the caller hands to test() *)

Col(vals) == [i \in 1..Len(vals) |-> <<vals[i]>>]

(* ones((n, n)) - identity(n), multiplied by f *)
OnesMinusId(n, f) == [i \in 1..n |-> [j \in 1..n |-> IF i = j THEN 0 ELSE f]]

(* x, y of each case; xArr / yArr: the argument is an ndarray; nan: it      *)
(* holds a NaN                                                              *)
CaseData(c) ==
    CASE c = "arange7" ->
           [x |-> Col(<<0, 1, 2, 3, 4, 5, 6>>), y |-> Col(<<0, 1, 2, 3, 4, 5, 6>>),
            xArr |-> TRUE, yArr |-> TRUE, nan |-> FALSE]
      [] c = "mixed5" ->
           [x |-> Col(<<0, 1, 2, 3, 4>>), y |-> Col(<<1, 3, 0, 4, 2>>),
            xArr |-> TRUE, yArr |-> TRUE, nan |-> FALSE]
      [] c = "ones4" ->
           [x |-> OnesMinusId(4, 1), y |-> OnesMinusId(4, 2),
            xArr |-> TRUE, yArr |-> TRUE, nan |-> FALSE]
      [] c = "ones10" ->
           [x |-> OnesMinusId(10, 1), y |-> OnesMinusId(10, 2),
            xArr |-> TRUE, yArr |-> TRUE, nan |-> FALSE]
      [] c = "notndarray" ->
           [x |-> Col(<<0, 1, 2, 3, 4>>), y |-> Col(<<5, 5, 5, 5, 5>>),
            xArr |-> TRUE, yArr |-> FALSE, nan |-> FALSE]
      [] c = "shape" ->
           [x |-> Col(<<0, 1, 2, 3, 4>>), y |-> Col(<<0, 1, 2, 3>>),
            xArr |-> TRUE, yArr |-> TRUE, nan |-> FALSE]
      [] c = "lowsamples" ->
           [x |-> Col(<<0, 1, 2>>), y |-> Col(<<0, 1, 2>>),
            xArr |-> TRUE, yArr |-> TRUE, nan |-> FALSE]
      [] c = "nan" ->
           [x |-> Col(<<0, 1, 2, 3, 4>>), y |-> Col(<<0, 1, 2, 3, 4>>),
            xArr |-> TRUE, yArr |-> TRUE, nan |-> TRUE]

      [] c = "groups" ->
           [x |-> Col(<<0, 1, 2>>), y |-> Col(<<1, 3>>),
            xArr |-> TRUE, yArr |-> TRUE, nan |-> FALSE]

InvalidCases == {"notndarray", "shape", "lowsamples", "nan"}

IsSquare(x) == \A i \in 1..Len(x) : Len(x[i]) = Len(x)

(* _CheckInputs(x, y, dim=2, reps, compute_distance)() followed by          *)
(* check_xy_distmat(x, y): TRUE when no error is raised                     *)
InputsValid(c, reps, m) ==
    LET d == CaseData(c) IN
    /\ d.xArr /\ d.yArr
    /\ ~d.nan
    /\ Len(d.x) = Len(d.y)
    /\ Len(d.x) > 3
    /\ reps >= 1
    /\ m # "notcallable"
    /\ (m = "None" => IsSquare(d.x) /\ IsSquare(d.y))

(* the workers argument: 1, -1 (a pool of os.cpu_count() processes; an     *)
(* integer above 1 gives a pool of that many), or a map-like callable,      *)
(* here imap_unordered of a pool the caller made                            *)
WorkersArgs == {"1", "-1", "imap_unordered"}

(* the valid input tried on an object of class k built with metric m: in   *)
(* the main suite a five-row sample pair (two groups of three and two rows  *)
(* for a k-sample test, a 4 x 4 pairwise matrix pair for metric None), in   *)
(* the scenario suite the documented examples of HHG.test                   *)
ValidCases(st, k, m) ==
    IF st = "scenario" THEN (IF m = "None" THEN {"ones10"} ELSE {"arange7"})
    ELSE IF m = "None" THEN {"ones4"}
    ELSE IF k = "KSample" THEN {"groups"}
    ELSE {"mixed5"}

(* the argument lists <<case, reps, workers>> of the object's first call   *)
(* of test(): the valid input with every reps and workers, and in the main  *)
(* suite each invalid input once and the valid input with an invalid reps   *)
ArgsFor(st, k, m) ==
    (ValidCases(st, k, m) \X (1..MaxReps) \X WorkersArgs)
    \cup (IF k = "KSample" \/ st = "scenario" THEN {}
          ELSE (InvalidCases \X {MaxReps} \X {"-1"})
               \cup (ValidCases(st, k, m) \X {-1} \X {"-1"}))

(* number of processes of the pool behind a workers argument *)
PoolSize(w) == CpuCount

-----------------------------------------------------------------------------
(* The objects *)

(* attributes after __init__: stat and pvalue are None, null_dist is not    *)
(* assigned                                                                 *)
Fresh == [stat |-> NoVal, pvalue |-> NoVal, null_dist |-> Unset]

Objects == {<<"HHG", "callable">>, <<"HHG", "None">>, <<"HHG", "notcallable">>,
            <<"Hsic", "callable">>, <<"Hsic", "notcallable">>,
            <<"KSample", "callable">>}

NoCall == [case |-> "", reps |-> 0, workers |-> "", seed |-> -1]

NoRun == [valid |-> FALSE, call |-> NoCall, null |-> <<>>, pvalue |-> NoVal]

(* the state of np.random in a process that was not seeded comes from the   *)
(* operating system and can be any state; the main suite starts from one,   *)
(* the scenario suite from that one or from one whose next two permutations *)
(* of seven rows come out in the same order                                 *)
StartStates(st) ==
    IF st = "scenario" THEN {[s |-> 60000, pos |-> 0], [s |-> 12060, pos |-> 0]}
    ELSE {[s |-> 60000, pos |-> 0]}

(* the state after the object o was constructed in a process whose random  *)
(* state is g                                                               *)
InitWith(st, o, g) ==
    /\ suite = st
    /\ kind = o[1] /\ metric = o[2]
    /\ recv = Fresh
    /\ inner = Fresh
    /\ pc = "idle"
    /\ call = NoCall
    /\ stat = NoVal
    /\ ret = NoVal
    /\ rng = g
    /\ wrng = <<>>
    /\ chunks = <<>>
    /\ busy = <<>>
    /\ results = <<>>
    /\ order = <<>>
    /\ drew = <<>>
    /\ evals = [obs |-> 0, perm |-> 0]
    /\ seeded = -1
    /\ before = Fresh
    /\ hist = [old |-> NoRun, cur |-> NoRun]
    /\ runs = 0

Init == \E o \in Objects, g \in StartStates("main") : InitWith("main", o, g)

(* the caller is between two calls; the scenario suite makes one call *)
CallerIdle ==
    /\ pc \in {"idle", "done", "raised", "stat"}
    /\ runs < (IF suite = "main" THEN MaxRuns ELSE 1)

(* the argument lists the caller may call test() with now: after a call of  *)
(* test() with valid arguments it calls again with the same arguments or    *)
(* with invalid ones                                                        *)
Args ==
    IF call.workers # "" /\ (kind = "KSample" \/ InputsValid(call.case, call.reps, metric))
    THEN {a \in ArgsFor(suite, kind, metric) :
            a = <<call.case, call.reps, call.workers>>
            \/ (kind # "KSample" /\ ~InputsValid(a[1], a[2], metric))}
    ELSE ArgsFor(suite, kind, metric)

(* self.x, self.y of IndependenceTest.test, self.u, self.v of               *)
(* KSampleTest.test: assigned at the start of a run from the arguments and  *)
(* read by every trial                                                      *)
SelfX(c) ==
    IF kind = "KSample" THEN KSampleTransform(CaseData(c).x, CaseData(c).y).u
    ELSE CaseData(c).x

SelfY(c) ==
    IF kind = "KSample" THEN KSampleTransform(CaseData(c).x, CaseData(c).y).v
    ELSE CaseData(c).y

(* self._statistic / self.indep_test._statistic as the runner calls it *)
Statistic(x, y) ==
    IF kind = "Hsic" THEN DcorrStatistic(x, y, metric)
    ELSE HHGStatistic(x, y, metric)

-----------------------------------------------------------------------------
(* One permutation trial *)

(* faulty PermStat: y is permuted from the random state x was permuted from *)
PermStatSameDraw(c, g) ==
    LET px == Permutation(SelfX(c), g)
        py == Permutation(SelfY(c), g)
    IN  [val |-> Statistic(px.arr, py.arr), rng |-> px.rng]

(* _perm_stat(index) run in a process whose random state is g: permute x,   *)
(* permute y, compute the statistic; rng is the state it leaves behind      *)
PermStat(c, g) ==
    LET px == Permutation(SelfX(c), g)
        py == Permutation(SelfY(c), px.rng)
    IN  [val |-> Statistic(px.arr, py.arr), rng |-> py.rng]

(* a process of the pool runs the trials of one chunk one after the other;  *)
(* starts[i] is the random state the i-th of them started from              *)
RECURSIVE RunChunk(_, _, _)
RunChunk(c, chunk, g) ==
    IF chunk = <<>> THEN [vals |-> <<>>, starts |-> <<>>, rng |-> g]
    ELSE LET t == PermStat(c, g)
             rest == RunChunk(c, Tail(chunk), t.rng)
         IN  [vals |-> <<t.val>> \o rest.vals,
              starts |-> <<g>> \o rest.starts,
              rng |-> rest.rng]

(* Pool.map: chunksize, extra = divmod(len, 4 * processes), one more when   *)
(* extra is not 0; imap_unordered hands out one index at a time             *)
ChunkSize(reps, w) ==
    IF w = "imap_unordered" THEN 1
    ELSE IF reps % (4 * PoolSize(w)) # 0
         THEN reps \div (4 * PoolSize(w)) + 1
         ELSE reps \div (4 * PoolSize(w))

(* range(reps) cut into chunks, in submission order (trial indices from 1) *)
ChunkList(reps, w) ==
    LET cs == ChunkSize(reps, w)
        nc == (reps + cs - 1) \div cs
    IN  [k \in 1..nc |->
            [i \in 1..(IF k * cs <= reps THEN cs ELSE reps - (k - 1) * cs) |->
                (k - 1) * cs + i]]

-----------------------------------------------------------------------------
(* The caller *)

(* np.random.seed(s) *)
Seed(s) ==
    /\ CallerIdle
    /\ rng' = SeedState(s)
    /\ seeded' = s
    /\ UNCHANGED <<suite, kind, metric, recv, inner, pc, call, stat, ret, wrng,
                   chunks, busy, results, order, drew, evals, before, hist, runs>>

(* a call that raises a validation error: what the caller sees, and the     *)
(* bookkeeping of the call                                                  *)
Raise(c, reps, w) ==
    /\ pc' = "raised"
    /\ call' = [case |-> c, reps |-> reps, workers |-> w, seed |-> seeded]
    /\ stat' = NoVal
    /\ ret' = NoVal
    /\ evals' = [obs |-> 0, perm |-> 0]
    /\ wrng' = <<>> /\ chunks' = <<>> /\ busy' = <<>>
    /\ results' = <<>> /\ order' = <<>> /\ drew' = <<>>
    /\ seeded' = -1
    /\ before' = recv
    /\ runs' = runs + 1
    /\ UNCHANGED <<suite, kind, metric, rng, hist>>

(* IndependenceTest.test / KSampleTest.test from its first line to the      *)
(* mapwrapper call: the observed statistic val has been computed, and       *)
(* MapWrapper(workers) has made the pool, whose processes each start from a *)
(* copy of the caller's random state.  With workers = 1 there is no pool:   *)
(* the builtin map runs the trials in the caller's process.                 *)
StartRun(c, reps, w, val) ==
    /\ pc' = "trials"
    /\ call' = [case |-> c, reps |-> reps, workers |-> w, seed |-> seeded]
    /\ stat' = val
    /\ ret' = NoVal
    /\ evals' = [obs |-> 1, perm |-> 0]
    /\ IF w = "1"
       THEN wrng' = <<>> /\ chunks' = <<>> /\ busy' = <<>>
       ELSE /\ wrng' = [p \in 1..PoolSize(w) |-> rng]
            /\ chunks' = ChunkList(reps, w)
            /\ busy' = [p \in 1..PoolSize(w) |-> <<>>]
    /\ results' = [t \in 1..reps |-> NoVal]
    /\ order' = <<>>
    /\ drew' = [t \in 1..reps |-> NoVal]
    /\ seeded' = -1
    /\ before' = recv
    /\ runs' = runs + 1
    /\ UNCHANGED <<suite, kind, metric, rng, hist>>

(* faulty HHGTest: the observed statistic is computed, and stored on     *)
(* the object, before the inputs are checked                                *)
HHGTestStatFirst(c, reps, w) ==
    /\ CallerIdle
    /\ kind = "HHG"
    /\ LET val == IF InputsValid(c, reps, metric)
                  THEN HHGStatistic(CaseData(c).x, CaseData(c).y, metric)
                  ELSE <<0, 1>>
       IN  /\ recv' = [recv EXCEPT !.stat = val]
           /\ UNCHANGED inner
           /\ IF ~InputsValid(c, reps, metric)
              THEN Raise(c, reps, w)
              ELSE StartRun(c, reps, w, val)

(* HHG.test(x, y, reps, workers) *)
HHGTest(c, reps, w) ==
    /\ CallerIdle
    /\ kind = "HHG"
    /\ IF ~InputsValid(c, reps, metric)
       THEN Raise(c, reps, w) /\ UNCHANGED <<recv, inner>>
       ELSE LET val == HHGStatistic(CaseData(c).x, CaseData(c).y, metric) IN
            /\ StartRun(c, reps, w, val)
            /\ recv' = [recv EXCEPT !.stat = val]
            /\ UNCHANGED inner

(* Hsic.test(x, y, reps, workers): a new Dcorr, and its test() *)
HsicTest(c, reps, w) ==
    /\ CallerIdle
    /\ kind = "Hsic"
    /\ IF ~InputsValid(c, reps, metric)
       THEN Raise(c, reps, w) /\ inner' = Fresh /\ UNCHANGED recv
       ELSE LET val == DcorrStatistic(CaseData(c).x, CaseData(c).y, metric) IN
            /\ StartRun(c, reps, w, val)
            /\ inner' = [Fresh EXCEPT !.stat = val]
            /\ UNCHANGED recv

(* KSampleTest.test(inputs, reps, workers), inputs = [x, y] *)
KSampleTest(c, reps, w) ==
    /\ CallerIdle
    /\ kind = "KSample"
    /\ reps >= 1
    /\ LET val == Statistic(SelfX(c), SelfY(c)) IN
       /\ StartRun(c, reps, w, val)
       /\ inner' = [inner EXCEPT !.stat = val]
       /\ UNCHANGED recv

-----------------------------------------------------------------------------
(* The trials *)

(* the attributes of the object whose _statistic a trial calls, seen from   *)
(* the caller's process: _statistic assigns self.stat                       *)
RecvAfterTrial(val) ==
    IF kind = "HHG" THEN [recv EXCEPT !.stat = val] ELSE recv

InnerAfterTrial(val) ==
    IF kind = "HHG" THEN inner ELSE [inner EXCEPT !.stat = val]

(* faulty TrialRaises: the results delivered so far are kept as the      *)
(* object's null distribution                                               *)
TrialSalvages ==
    /\ pc' = "raised"
    /\ ret' = NoVal
    /\ recv' = [recv EXCEPT !.null_dist = [i \in 1..Len(order) |-> results[order[i]]]]
    /\ UNCHANGED <<suite, kind, metric, inner, call, stat, results, order,
                   drew, evals, seeded, before, hist, runs>>

(* a trial raised: list(mapwrapper(...)) raises, and test() with it *)
TrialRaises ==
    /\ pc' = "raised"
    /\ ret' = NoVal
    /\ UNCHANGED <<suite, kind, metric, recv, inner, call, stat, results, order,
                   drew, evals, seeded, before, hist, runs>>

(* workers = 1: the builtin map calls _perm_stat(index) for the next index, *)
(* in the caller's process and on the object itself                         *)
SeqTrial ==
    /\ pc = "trials"
    /\ call.workers = "1"
    /\ Len(order) < call.reps
    /\ LET t == Len(order) + 1
           r == PermStat(call.case, rng)
       IN  \E ok \in BOOLEAN :
             /\ rng' = r.rng
             /\ UNCHANGED <<wrng, chunks, busy>>
             /\ IF ok
                THEN /\ results' = [results EXCEPT ![t] = r.val]
                     /\ order' = Append(order, t)
                     /\ drew' = [drew EXCEPT ![t] = <<0, rng>>]
                     /\ evals' = [evals EXCEPT !.perm = @ + 1]
                     /\ recv' = RecvAfterTrial(r.val)
                     /\ inner' = InnerAfterTrial(r.val)
                     /\ UNCHANGED <<suite, kind, metric, pc, call, stat, ret,
                                    seeded, before, hist, runs>>
                ELSE TrialRaises

(* a free process of the pool takes the next chunk off the task queue *)
WorkerTake(p) ==
    /\ pc = "trials"
    /\ call.workers # "1"
    /\ chunks # <<>>
    /\ busy[p] = <<>>
    /\ busy' = [busy EXCEPT ![p] = Head(chunks)]
    /\ chunks' = Tail(chunks)
    /\ UNCHANGED <<suite, kind, metric, recv, inner, pc, call, stat, ret, rng,
                   wrng, results, order, drew, evals, seeded, before, hist, runs>>

(* the process runs the trials of its chunk, on its own copy of the object  *)
(* and with its own random state, and delivers the results                  *)
WorkerFinish(p) ==
    /\ pc = "trials"
    /\ call.workers # "1"
    /\ busy[p] # <<>>
    /\ LET ch == busy[p]
           r == RunChunk(call.case, ch, wrng[p])
       IN  \E ok \in BOOLEAN :
             /\ wrng' = [wrng EXCEPT ![p] = r.rng]
             /\ busy' = [busy EXCEPT ![p] = <<>>]
             /\ UNCHANGED <<rng, chunks>>
             /\ IF ok
                THEN /\ results' = [t \in DOMAIN results |->
                                      IF \E i \in 1..Len(ch) : ch[i] = t
                                      THEN r.vals[CHOOSE i \in 1..Len(ch) : ch[i] = t]
                                      ELSE results[t]]
                     /\ order' = order \o ch
                     /\ drew' = [t \in DOMAIN drew |->
                                   IF \E i \in 1..Len(ch) : ch[i] = t
                                   THEN <<p, r.starts[CHOOSE i \in 1..Len(ch) : ch[i] = t]>>
                                   ELSE drew[t]]
                     /\ evals' = [evals EXCEPT !.perm = @ + Len(ch)]
                     /\ UNCHANGED <<suite, kind, metric, recv, inner, pc, call,
                                    stat, ret, seeded, before, hist, runs>>
                ELSE TrialRaises

-----------------------------------------------------------------------------
(* The p-value *)

(* list(mapwrapper(self._perm_stat, range(reps))): map and Pool.map return  *)
(* the results in index order, imap_unordered as they were delivered        *)
NullDist ==
    IF call.workers = "imap_unordered"
    THEN [i \in 1..call.reps |-> results[order[i]]]
    ELSE [i \in 1..call.reps |-> results[i]]

(* faulty CountGE: the count stops at the first entry below stat *)
CountGEPrefix(nd, st) ==
    Cardinality({i \in 1..Len(nd) : \A k \in 1..i : RatGE(nd[k], st)})

(* (null_dist >= stat).sum() *)
CountGE(nd, st) == Cardinality({i \in 1..Len(nd) : RatGE(nd[i], st)})

(* faulty PValue: without the correction of a zero p-value *)
PValueUncorrected(nd, st, reps) == Rat(CountGE(nd, st), reps)

(* pvalue = count / reps, and 1 / reps when that is 0 *)
PValue(nd, st, reps) ==
    IF CountGE(nd, st) = 0 THEN Rat(1, reps) ELSE Rat(CountGE(nd, st), reps)

(* the multiset of the entries of a sequence: value -> number of entries *)
BagOf(nd) ==
    [v \in {nd[i] : i \in 1..Len(nd)} |-> Cardinality({i \in 1..Len(nd) : nd[i] = v})]

(* test() from the return of the mapwrapper call to its own return; for     *)
(* Hsic this is the Dcorr's test(), followed by the rest of Hsic.test       *)
Return ==
    /\ pc = "trials"
    /\ Len(order) = call.reps
    /\ LET nd == NullDist
           pv == PValue(nd, stat, call.reps)
       IN  /\ IF kind = "Hsic"
              THEN /\ inner' = [inner EXCEPT !.null_dist = nd, !.pvalue = pv]
                   /\ recv' = [recv EXCEPT !.stat = stat, !.pvalue = pv]
              ELSE /\ recv' = [recv EXCEPT !.null_dist = nd, !.pvalue = pv]
                   /\ UNCHANGED inner
           /\ ret' = <<stat, pv>>
           /\ hist' = [old |-> hist.cur,
                       cur |-> [valid |-> TRUE, call |-> call, null |-> BagOf(nd),
                                pvalue |-> pv]]
    /\ pc' = "done"
    /\ UNCHANGED <<suite, kind, metric, call, stat, rng, wrng, chunks, busy,
                   results, order, drew, evals, seeded, before, runs>>

-----------------------------------------------------------------------------
(* _statistic called directly *)

StatCall(c, val, nperm) ==
    /\ pc' = "stat"
    /\ call' = [case |-> c, reps |-> 0, workers |-> "", seed |-> seeded]
    /\ stat' = NoVal
    /\ ret' = <<val>>
    /\ recv' = [recv EXCEPT !.stat = val]
    /\ evals' = [obs |-> 1, perm |-> nperm]
    /\ wrng' = <<>> /\ chunks' = <<>> /\ busy' = <<>>
    /\ results' = <<>> /\ order' = <<>> /\ drew' = <<>>
    /\ seeded' = -1
    /\ before' = recv
    /\ runs' = runs + 1
    /\ UNCHANGED <<suite, kind, metric, rng, hist>>

(* HHG._statistic(x, y) *)
HHGStatisticCall(c) ==
    /\ CallerIdle
    /\ kind = "HHG"
    /\ InputsValid(c, 1, metric)
    /\ StatCall(c, HHGStatistic(CaseData(c).x, CaseData(c).y, metric), 0)
    /\ UNCHANGED inner

(* Hsic._statistic(x, y): stat = Dcorr(...).test(x, y)[0], a whole run of   *)
(* the Dcorr's test() with the default reps and workers = -1, whose trials  *)
(* draw in the processes of its pool                                        *)
HsicStatisticCall(c) ==
    /\ CallerIdle
    /\ kind = "Hsic"
    /\ IF ~InputsValid(c, DefaultReps, metric)
       THEN Raise(c, 0, "") /\ inner' = Fresh /\ UNCHANGED recv
       ELSE /\ StatCall(c, DcorrStatistic(CaseData(c).x, CaseData(c).y, metric),
                        DefaultReps)
            /\ inner' = Fresh

-----------------------------------------------------------------------------

Next ==
    \/ \E s \in 0..(NumSeeds - 1) : Seed(s)
    \/ \E a \in Args : HHGTest(a[1], a[2], a[3])
    \/ \E a \in Args : HsicTest(a[1], a[2], a[3])
    \/ \E a \in Args : KSampleTest(a[1], a[2], a[3])
    \/ \E a \in Args : HHGStatisticCall(a[1])
    \/ \E a \in Args : HsicStatisticCall(a[1])
    \/ SeqTrial
    \/ \E p \in DOMAIN busy : WorkerTake(p)
    \/ \E p \in DOMAIN busy : WorkerFinish(p)
    \/ Return

Spec == Init /\ [][Next]_vars

(* the documented examples of HHG.test, one call each *)
ScenarioObjects == {<<"HHG", "callable">>, <<"HHG", "None">>}

InitScenario ==
    \E o \in ScenarioObjects, g \in StartStates("scenario") : InitWith("scenario", o, g)

NextScenario ==
    \/ \E s \in 0..(NumSeeds - 1) : Seed(s)
    \/ \E a \in Args : HHGTest(a[1], a[2], a[3])
    \/ SeqTrial
    \/ \E p \in DOMAIN busy : WorkerTake(p)
    \/ \E p \in DOMAIN busy : WorkerFinish(p)
    \/ Return

SpecScenario == InitScenario /\ [][NextScenario]_vars

-----------------------------------------------------------------------------
(* Properties of the runner *)

(* test() raised because a trial failed: the observed statistic had been    *)
(* evaluated                                                                *)
RaisedByTrial == pc = "raised" /\ evals.obs = 1

(* C1: after every run of test() that returned, the returned p-value is the *)
(* stored one, lies between 1/reps and 1, and is not 0.                     *)
C1_PValueRange ==
    pc = "done" =>
        /\ recv.pvalue = ret[2]
        /\ ret[2][1] > 0
        /\ ret[2][1] <= ret[2][2]
        /\ ret[2][1] * call.reps >= ret[2][2]

(* a run of two or more trials returned, none of its trials reached the     *)
(* observed statistic, and the p-value is 1/reps                            *)
C1_Witness ==
    /\ pc = "done"
    /\ call.reps >= 2
    /\ \A t \in 1..call.reps : ~RatGE(results[t], stat)
    /\ ret[2] = Rat(1, call.reps)

(* C2: the p-value of a run that returned is the number of trials whose     *)
(* result is at least the observed statistic, over reps, and 1/reps when    *)
(* that number is 0, whatever the order in which the results were delivered.*)
C2_PValueOfMultiset ==
    pc = "done" =>
        LET hits == Cardinality({t \in 1..call.reps : RatGE(results[t], stat)})
        IN  ret[2] = IF hits = 0 THEN Rat(1, call.reps) ELSE Rat(hits, call.reps)

(* a run returned whose results were delivered out of submission order: a   *)
(* later trial's result came before an earlier trial's, and exactly one of  *)
(* the two is at least the observed statistic                               *)
C2_Witness ==
    /\ pc = "done"
    /\ call.workers = "imap_unordered"
    /\ \E i, j \in 1..Len(order) :
          /\ i < j
          /\ order[i] > order[j]
          /\ RatGE(results[order[i]], stat) # RatGE(results[order[j]], stat)

(* C3: after every run of test() that returned, the object holds a          *)
(* null_dist of exactly reps entries.                                       *)
C3_NullDistStored ==
    pc = "done" => recv.null_dist # Unset /\ Len(recv.null_dist) = call.reps

(* C4: no two trials of a run start their draws from the same position of   *)
(* the same random stream.                                                  *)
C4_OwnPermutation ==
    \A t1, t2 \in DOMAIN drew :
        (t1 # t2 /\ drew[t1] # NoVal /\ drew[t2] # NoVal)
            => drew[t1][2] # drew[t2][2]

(* C5: two runs of test() with the same inputs, reps and workers, each      *)
(* started right after the caller fixed the same seed, have the same        *)
(* multiset of null_dist values and the same p-value.                       *)
C5_SeedReproducible ==
    (/\ pc = "done"
     /\ hist.old.valid
     /\ hist.cur.call.seed # -1
     /\ hist.old.call = hist.cur.call)
        => hist.old.null = hist.cur.null /\ hist.old.pvalue = hist.cur.pvalue

(* C6: the observed statistic is there before the first trial, and the stat *)
(* attribute of an independence test object is the observed statistic from  *)
(* then on: during the trials of HHG.test, and when test() has returned,    *)
(* where it equals the returned stat.                                       *)
C6_ObservedStatFixed ==
    kind # "KSample" =>
        /\ (pc = "trials" => stat # NoVal /\ evals.obs = 1)
        /\ (pc = "trials" /\ kind = "HHG" => recv.stat = stat)
        /\ (pc = "done" => ret[1] = stat /\ recv.stat = ret[1])

(* C7: a call of _statistic evaluates the statistic once and runs no        *)
(* permutation trial, and a run of test() that returned evaluated it once   *)
(* on the observed data and reps times on permuted data.                    *)
C7_StatisticPure ==
    /\ (pc = "stat" => evals = [obs |-> 1, perm |-> 0])
    /\ (pc = "done" => evals = [obs |-> 1, perm |-> call.reps])

(* the arguments of the current or last call of test() on an independence  *)
(* test object were invalid                                                 *)
CallInvalid ==
    /\ kind # "KSample"
    /\ pc \in {"trials", "done", "raised"}
    /\ ~InputsValid(call.case, call.reps, metric)

(* C8: a call of test() with an invalid input raises before the statistic   *)
(* is evaluated and before a trial runs, returns nothing and leaves stat,   *)
(* pvalue and null_dist of the object as they were.                         *)
C8_InvalidInputRaisesEarly ==
    CallInvalid =>
           /\ pc = "raised"
           /\ ret = NoVal
           /\ evals = [obs |-> 0, perm |-> 0]
           /\ recv = before
           /\ order = <<>>

(* HHG.test raised on an invalid input after an earlier run had stored its  *)
(* results on the object                                                    *)
C8_Witness ==
    /\ pc = "raised"
    /\ kind = "HHG"
    /\ CallInvalid
    /\ before.pvalue # NoVal
    /\ before.null_dist # Unset

(* C9: when a trial fails, test() raises with the run incomplete, returns   *)
(* nothing and stores neither a null_dist nor a pvalue of that run; a run   *)
(* that returned has the results of all its reps trials.                    *)
C9_TrialFailureAborts ==
    /\ RaisedByTrial =>
           /\ ret = NoVal
           /\ Len(order) < call.reps
           /\ recv.null_dist = before.null_dist
           /\ recv.pvalue = before.pvalue
    /\ pc = "done" =>
           /\ \A t \in 1..call.reps : results[t] # NoVal
           /\ Len(order) = call.reps
           /\ evals.perm >= call.reps

(* a trial failed after another trial of the run had delivered its result,  *)
(* on an object that holds the results of an earlier run                    *)
C9_Witness ==
    /\ RaisedByTrial
    /\ Len(order) >= 1
    /\ before.null_dist # Unset
    /\ before.pvalue # NoVal

(* C10: for x = y = [0, .., 6] the observed HHG statistic is 160, in every  *)
(* run, whatever reps and workers are.                                      *)
C10_HHGArange7 ==
    (call.case = "arange7" /\ pc \in {"trials", "done"}) =>
        /\ stat = <<160, 1>>
        /\ (pc = "done" => ret[1] = <<160, 1>>)

(* HHG.test on x = y = [0, .., 6] returned, with the largest reps and a     *)
(* pool of workers                                                          *)
C10_Witness ==
    /\ pc = "done"
    /\ call.case = "arange7"
    /\ call.reps = MaxReps
    /\ call.workers = "-1"
    /\ ret[1] = <<160, 1>>

-----------------------------------------------------------------------------
(* Properties of the statistics *)

(* permx, permy of the trial t of the current run: what _perm_stat drew     *)
(* from the random state the trial started from                             *)
TrialDraw(t) ==
    LET px == Permutation(SelfX(call.case), drew[t][2])
        py == Permutation(SelfY(call.case), px.rng)
    IN  [x |-> px.arr, y |-> py.arr]

(* two one-column samples holding 0 .. n-1 list them in the same order or   *)
(* one in the reverse order of the other                                    *)
SameOrMirrored(px, py) ==
    \/ px = py
    \/ \A i \in 1..Len(px) : px[i][1] + py[i][1] = Len(px) - 1

(* the trials of the current run on x = y = [0, .., 6] whose permuted x and *)
(* y are in the same or in mirrored order                                   *)
SameOrderTrials ==
    {t \in 1..call.reps : SameOrMirrored(TrialDraw(t).x, TrialDraw(t).y)}

(* C11 as stated: in every run of HHG.test on x = y = [0, .., 6] that       *)
(* returned, no trial's statistic is at least the observed one and the      *)
(* returned p-value is 1/reps.                                              *)
C11_NoTrialReaches ==
    (call.case = "arange7" /\ pc = "done") =>
        /\ \A t \in 1..call.reps : ~RatGE(results[t], stat)
        /\ ret[2] = Rat(1, call.reps)

(* C11 amended: in every run of HHG.test on x = y = [0, .., 6] that         *)
(* returned, no trial's statistic is above the observed one, a trial's      *)
(* statistic equals it exactly when the trial's permuted x and y are in the *)
(* same or in mirrored order, and the p-value is 1/reps when no trial is    *)
(* such a trial and k/reps when k >= 1 trials are.                          *)
C11_ReachedOnlyBySameOrder ==
    (call.case = "arange7" /\ pc = "done") =>
        /\ \A t \in 1..call.reps : RatGE(stat, results[t])
        /\ \A t \in 1..call.reps : (results[t] = stat) <=> (t \in SameOrderTrials)
        /\ ret[2] = IF SameOrderTrials = {} THEN Rat(1, call.reps)
                    ELSE Rat(Cardinality(SameOrderTrials), call.reps)

(* HHG.test on x = y = [0, .., 6] returned 1/reps after the largest number  *)
(* of trials, run by the pool, none of which reached the observed statistic *)
C11_Witness ==
    /\ pc = "done"
    /\ call.case = "arange7"
    /\ call.reps = MaxReps
    /\ call.workers = "imap_unordered"
    /\ SameOrderTrials = {}
    /\ \A t \in 1..call.reps : ~RatGE(results[t], stat)
    /\ ret[2] = Rat(1, MaxReps)

(* C12: in every run of HHG(compute_distance=None).test on x = the 10 x 10   *)
(* ones-minus-identity matrix and y = 2x, every pair term of the observed   *)
(* statistic has denominator 0, the observed statistic is 0, every trial's  *)
(* statistic is at least 0, and the run returns stat 0 and p-value 1.       *)
C12_DegenerateZero ==
    (call.case = "ones10" /\ pc \in {"trials", "done"}) =>
        LET d == KernelInputs(CaseData("ones10").x, CaseData("ones10").y, metric) IN
        /\ \A i, j \in 1..Len(d.distx) :
              i # j => HhgDenom(HhgCells(d.distx, d.disty, i, j)) = 0
        /\ stat = <<0, 1>>
        /\ \A t \in 1..call.reps :
              results[t] # NoVal => RatGE(results[t], <<0, 1>>)
        /\ (pc = "done" => ret = << <<0, 1>>, <<1, 1>> >>)

(* the run on the 10 x 10 matrices returned p-value 1 after the largest     *)
(* number of trials, run by the pool, one of them with a statistic above 0  *)
C12_Witness ==
    /\ pc = "done"
    /\ call.case = "ones10"
    /\ metric = "None"
    /\ call.reps = MaxReps
    /\ call.workers = "-1"
    /\ \E t \in 1..call.reps : results[t] # <<0, 1>>
    /\ ret = << <<0, 1>>, <<1, 1>> >>

(* the permutations of the row indices 1 .. n *)
Perms(n) == {p \in [1..n -> 1..n] : \A i, j \in 1..n : p[i] = p[j] => i = j}

(* x[p]: the rows of the 2-D array x in the order p, its columns as they    *)
(* are                                                                      *)
RowsBy(x, p) == [i \in 1..Len(x) |-> x[p[i]]]

(* C13: when HHG._statistic(x, y) has returned (here: as the first call on  *)
(* the object), its value is the value of HHG._statistic(x[p], y[p]) for    *)
(* every permutation p of the row indices, for sample matrices and for      *)
(* precomputed pairwise matrices.                                           *)
C13_RowOrderInvariant ==
    (pc = "stat" /\ kind = "HHG" /\ runs = 1) =>
        LET x == CaseData(call.case).x
            y == CaseData(call.case).y
        IN  \A p \in Perms(Len(x)) :
                HHGStatistic(RowsBy(x, p), RowsBy(y, p), metric) = ret[1]

(* D is a pairwise distance matrix: square, symmetric, zero on the diagonal *)
IsPairwise(D) ==
    /\ IsSquare(D)
    /\ \A i, j \in 1..Len(D) : D[i][j] = D[j][i]
    /\ \A i \in 1..Len(D) : D[i][i] = 0

(* the trials of the current run that have delivered a result *)
Delivered == {t \in DOMAIN drew : drew[t] # NoVal}

(* distx, disty handed to _hhg for the observed statistic of the current    *)
(* run, and for its trial t                                                 *)
ObservedInputs == KernelInputs(SelfX(call.case), SelfY(call.case), metric)

TrialInputs(t) == KernelInputs(TrialDraw(t).x, TrialDraw(t).y, metric)

(* the statistic of the current run is HHG's: the object is an HHG, or a    *)
(* KSampleTest built on one                                                 *)
RunsHhg == kind \in {"HHG", "KSample"} /\ pc \in {"trials", "done"}

(* C14: in every run, the two matrices handed to _hhg for the observed      *)
(* statistic and for each trial are square, symmetric and zero on the       *)
(* diagonal, with a metric and in precomputed mode.                         *)
C14_KernelInputsPairwise ==
    RunsHhg =>
        /\ IsPairwise(ObservedInputs.distx) /\ IsPairwise(ObservedInputs.disty)
        /\ \A t \in Delivered :
              IsPairwise(TrialInputs(t).distx) /\ IsPairwise(TrialInputs(t).disty)

(* for every ordered pair i # j the four cell counts are at least 0 and add *)
(* up to n - 2                                                              *)
CellsPartition(d) ==
    \A i, j \in 1..Len(d.distx) :
        i # j =>
            LET c == HhgCells(d.distx, d.disty, i, j) IN
            /\ c.t11 >= 0 /\ c.t12 >= 0 /\ c.t21 >= 0 /\ c.t22 >= 0
            /\ c.t11 + c.t12 + c.t21 + c.t22 = Len(d.distx) - 2

(* C15: in every evaluation of the HHG statistic of a run, the observed one *)
(* and each trial's, the four cell counts of every ordered pair i # j are   *)
(* at least 0 and add up to n - 2.                                          *)
C15_CellCountsPartition ==
    RunsHhg =>
        /\ CellsPartition(ObservedInputs)
        /\ \A t \in Delivered : CellsPartition(TrialInputs(t))

====
